---- MODULE Spec2Model ----
(***************************************************************************)
(* The photon binary serializer (plugins/serializers/photon/photon.go,     *)
(* the revision with the metric index, lines 316-709) and the reference    *)
(* decoder of its test (photon_test.go, ProcessBinary).                    *)
(*                                                                         *)
(* Representation.  A byte is a number in 0..255 and a Go string or byte   *)
(* buffer is a sequence of bytes.  A Go int64 is held as four 16-bit limbs *)
(* (least significant first, two's complement), since the tick values do   *)
(* not fit the model checker's integers.  A float32 is [cls, n]: cls is    *)
(* "fin" (the finite, integer-valued number n), "nan", "pinf" or "ninf".   *)
(* A field value is [type, cls, n]: type is the Go dynamic type ("nil" for *)
(* the nil interface); a float64 may also have cls "huge" / "nhuge", a     *)
(* finite float64 beyond +/- math.MaxFloat32.                              *)
(***************************************************************************)
EXTENDS Integers, Sequences, FiniteSets, TLC

VARIABLES
    SenderID,       \* Serializer.SenderID
    buf,            \* Serializer.buf
    metricsIndex,   \* Serializer.metricsIndex: name -> sequence of samples
    pc,             \* the caller: "idle", or "returned" holding a call's result
    call,           \* the operation that returned: "Serialize" / "SerializeBatch"
    input,          \* the metrics handed to that operation
    out,            \* the bytes it returned (Nil for a nil slice)
    err,            \* the error it returned (NoError for nil)
    out2,           \* the bytes of the second of two fresh runs (TwinBatch)
    long            \* of a long batch (LongBatch): its length n, the head of
                    \* the returned bytes and their number

vars == <<SenderID, buf, metricsIndex, pc, call, input, out, err, out2, long>>

-----------------------------------------------------------------------------
(* Values of the Go program *)

\* a returned []byte: the nil slice, or the bytes
Nil == [nil |-> TRUE, bytes |-> <<>>]
Bytes(b) == [nil |-> FALSE, bytes |-> b]
NoError == "no error"
NoFields == "no serializable fields"

Abs(n) == IF n < 0 THEN -n ELSE n

RECURSIVE Log2(_)
\* floor(log2(a)) for a >= 1
Log2(a) == IF a < 2 THEN 0 ELSE 1 + Log2(a \div 2)

F32(cls, n) == [cls |-> cls, n |-> n]
Val(type, cls, n) == [type |-> type, cls |-> cls, n |-> n]

\* float32(n) for an integer n: round to nearest, ties to even, 24 bits
RoundToFloat32(n) ==
    LET a == Abs(n)
        e == Log2(a)
        ulp == 2 ^ (e - 23)
        q == a \div ulp
        r == a % ulp
        up == r * 2 > ulp \/ (r * 2 = ulp /\ q % 2 = 1)
        m == IF up THEN (q + 1) * ulp ELSE q * ulp
    IN  IF a < 16777216 THEN n
        ELSE IF n < 0 THEN -m ELSE m

\* The Go conversion float32(v) of a numeric field value
ToFloat32(value) ==
    CASE value.cls = "fin" -> F32("fin", RoundToFloat32(value.n))
      [] value.cls = "huge" -> F32("pinf", 0)
      [] value.cls = "nhuge" -> F32("ninf", 0)
      [] OTHER -> F32(value.cls, 0)

\* Go's v < w on float32 against math.MaxFloat32: only +Inf is above it
AboveMaxFloat32(v) == v.cls = "pinf"

-----------------------------------------------------------------------------
(* int64 arithmetic on 16-bit limbs *)

\* the int64 with value n
Int64Of(n) ==
    LET n1 == n \div 65536
        n2 == n1 \div 65536
        n3 == n2 \div 65536
    IN  <<n % 65536, n1 % 65536, n2 % 65536, n3 % 65536>>

\* a * k in int64 (wrapping), 0 <= k <= 10000
Int64Mul(a, k) ==
    LET p1 == a[1] * k
        p2 == a[2] * k + p1 \div 65536
        p3 == a[3] * k + p2 \div 65536
        p4 == a[4] * k + p3 \div 65536
    IN  <<p1 % 65536, p2 % 65536, p3 % 65536, p4 % 65536>>

\* a + b in int64 (wrapping)
Int64Add(a, b) ==
    LET s1 == a[1] + b[1]
        s2 == a[2] + b[2] + s1 \div 65536
        s3 == a[3] + b[3] + s2 \div 65536
        s4 == a[4] + b[4] + s3 \div 65536
    IN  <<s1 % 65536, s2 % 65536, s3 % 65536, s4 % 65536>>

\* 621355968000000000 = 0x089F7FF5F7B58000
EpochTicks == <<32768, 63413, 32757, 2207>>

\* time.Time.Unix(): whole seconds, the nanoseconds are dropped
Unix(t) == Int64Of(t.sec)

-----------------------------------------------------------------------------
(* The primitive encoders *)

RECURSIVE write7BitEncodedIntNoFlag(_)
\* the groups written without the continuation bit
write7BitEncodedIntNoFlag(v) ==
    IF v >= 128 THEN <<v % 128>> \o write7BitEncodedIntNoFlag(v \div 128)
    ELSE <<v>>

RECURSIVE write7BitEncodedInt(_)
\* the bytes written for v = uint32(value), value >= 0
write7BitEncodedInt(v) ==
    IF v >= 128 THEN <<(v % 128) + 128>> \o write7BitEncodedInt(v \div 128)
    ELSE <<v>>

writeString(str) == write7BitEncodedInt(Len(str)) \o str

\* int16(n): the low 16 bits of n, signed
ToInt16(n) == ((n + 32768) % 65536) - 32768

writeInt16(value) == <<value % 256, (value \div 256) % 256>>

writeInt32(value) ==
    <<value % 256, (value \div 256) % 256,
      (value \div 65536) % 256, (value \div 16777216) % 256>>

writeInt64Value(value) ==
    <<value[1] % 256, value[1] \div 256, value[2] % 256, value[2] \div 256,
      value[3] % 256, value[3] \div 256, value[4] % 256, value[4] \div 256>>

writeTime(t) ==
    writeInt64Value(
        Int64Add(Int64Mul(Int64Mul(Unix(t), 10000), 1000), EpochTicks))

\* math.Float32bits, as the four bytes binary.Write emits (little endian)
Float32Bytes(sign, exp, mant) ==
    <<mant % 256, (mant \div 256) % 256,
      (exp % 2) * 128 + mant \div 65536, sign * 128 + exp \div 2>>

appendFloatField(value) ==
    CASE value.cls = "nan" -> Float32Bytes(0, 255, 4194304)
      [] value.cls = "pinf" -> Float32Bytes(0, 255, 0)
      [] value.cls = "ninf" -> Float32Bytes(1, 255, 0)
      [] OTHER ->
            LET a == Abs(value.n)
                e == Log2(a)
                mant == IF e <= 23 THEN (a - 2 ^ e) * 2 ^ (23 - e)
                        ELSE (a - 2 ^ e) \div 2 ^ (e - 23)
            IN  IF a = 0 THEN Float32Bytes(0, 0, 0)
                ELSE Float32Bytes(IF value.n < 0 THEN 1 ELSE 0, e + 127, mant)

-----------------------------------------------------------------------------
(* The value selector *)

Zero == F32("fin", 0)

isFloat32Valid(v) ==
    IF v.cls = "nan" THEN "is NaN"
    ELSE IF AboveMaxFloat32(v) THEN "is Inf"
    ELSE NoError

isValidFieldTypeAndValue(value) ==
    LET reject == [ok |-> FALSE, v |-> Zero]
        check(valueToWrite) ==
            IF isFloat32Valid(valueToWrite) # NoError THEN reject
            ELSE [ok |-> TRUE, v |-> valueToWrite]
    IN  CASE value.type \in {"int32", "uint32", "int64", "uint64"} ->
                check(ToFloat32(value))
          [] value.type = "float32" -> check(F32(value.cls, value.n))
          [] value.type = "float64" ->
                IF value.cls = "nan" THEN reject
                ELSE IF value.cls \in {"pinf", "ninf"} THEN reject
                ELSE check(ToFloat32(value))
          [] OTHER -> reject

\* appendFieldValue without the math.IsInf test on a float64
appendFieldValueNoInfTest(value) ==
    LET fail(reason) == [err |-> reason, bytes |-> <<>>]
        write(valueToWrite) ==
            IF isFloat32Valid(valueToWrite) # NoError
            THEN fail(isFloat32Valid(valueToWrite))
            ELSE [err |-> NoError, bytes |-> appendFloatField(valueToWrite)]
    IN  CASE value.type = "nil" -> fail("does not have field")
          [] value.type \in {"int32", "uint32", "int64", "uint64"} ->
                write(ToFloat32(value))
          [] value.type = "float32" -> write(F32(value.cls, value.n))
          [] value.type = "float64" ->
                IF value.cls = "nan" THEN fail("is NaN")
                ELSE write(ToFloat32(value))
          [] OTHER -> fail("invalid value type")

\* [err, bytes]: the error returned and the bytes appended to w
appendFieldValue(value) ==
    LET fail(reason) == [err |-> reason, bytes |-> <<>>]
        write(valueToWrite) ==
            IF isFloat32Valid(valueToWrite) # NoError
            THEN fail(isFloat32Valid(valueToWrite))
            ELSE [err |-> NoError, bytes |-> appendFloatField(valueToWrite)]
    IN  CASE value.type = "nil" -> fail("does not have field")
          [] value.type \in {"int32", "uint32", "int64", "uint64"} ->
                write(ToFloat32(value))
          [] value.type = "float32" -> write(F32(value.cls, value.n))
          [] value.type = "float64" ->
                IF value.cls = "nan" THEN fail("is NaN")
                ELSE IF value.cls \in {"pinf", "ninf"} THEN fail("is Inf")
                ELSE write(ToFloat32(value))
          [] OTHER -> fail("invalid value type")

RECURSIVE scanFieldsKeyFirst(_, _)
\* the loop giving up at the first field keyed "value_mean" or "value",
\* valid or not
scanFieldsKeyFirst(flds, i) ==
    IF i > Len(flds) THEN [value |-> Zero, err |-> NoFields]
    ELSE LET r == isValidFieldTypeAndValue(flds[i].Value)
         IN  IF flds[i].Key = "value_mean" \/ flds[i].Key = "value"
             THEN IF r.ok THEN [value |-> r.v, err |-> NoError]
                  ELSE [value |-> Zero, err |-> NoFields]
             ELSE scanFieldsKeyFirst(flds, i + 1)

RECURSIVE scanFields(_, _)
\* the loop of getMetricValue over flds[i..]: the first field that is valid
\* and is keyed "value_mean" or "value"; NoFields when the loop runs out
scanFields(flds, i) ==
    IF i > Len(flds) THEN [value |-> Zero, err |-> NoFields]
    ELSE LET r == isValidFieldTypeAndValue(flds[i].Value)
         IN  IF ~r.ok THEN scanFields(flds, i + 1)
             ELSE IF flds[i].Key = "value_mean" \/ flds[i].Key = "value"
                  THEN [value |-> r.v, err |-> NoError]
                  ELSE scanFields(flds, i + 1)

\* getMetricValue letting a metric without fields through with the value 0
getMetricValueZeroFieldsPass(m) ==
    LET flds == m.fields
    IN  CASE Len(flds) = 0 -> [value |-> Zero, err |-> NoError]
          [] Len(flds) = 1 ->
                LET r == isValidFieldTypeAndValue(flds[1].Value)
                IN  IF r.ok THEN [value |-> r.v, err |-> NoError]
                    ELSE [value |-> Zero, err |-> NoError]
          [] OTHER -> scanFields(flds, 1)

getMetricValue(m) ==
    LET flds == m.fields
    IN  CASE Len(flds) = 0 -> [value |-> Zero, err |-> NoFields]
          [] Len(flds) = 1 ->
                LET r == isValidFieldTypeAndValue(flds[1].Value)
                IN  IF r.ok THEN [value |-> r.v, err |-> NoError]
                    \* not ok: the case ends and line 505 returns 0 with
                    \* err, which was never assigned: nil
                    ELSE [value |-> Zero, err |-> NoError]
          [] OTHER -> scanFields(flds, 1)

\* index[name] of a Go map: the nil slice for a missing key
Lookup(index, name) == IF name \in DOMAIN index THEN index[name] ELSE <<>>

\* index[name] = v of a Go map
Store(index, name, v) == (name :> v) @@ index

photonMetricSample(t, v) == [time |-> t, value |-> v]

\* indexMetric keeping only the latest sample of a name
indexMetricKeepLatest(index, m) ==
    LET r == getMetricValue(m)
    IN  IF r.err # NoError THEN [index |-> index, err |-> r.err]
        ELSE [index |-> Store(index, m.name, <<photonMetricSample(m.time, r.value)>>),
              err |-> NoError]

\* [index, err]
indexMetric(index, m) ==
    LET r == getMetricValue(m)
    IN  IF r.err # NoError THEN [index |-> index, err |-> r.err]
        ELSE [index |-> Store(index, m.name,
                          Append(Lookup(index, m.name),
                                 photonMetricSample(m.time, r.value))),
              err |-> NoError]

-----------------------------------------------------------------------------
(* The batch encoder *)

\* the header with the count written before the timestamp
writeBatchHeaderCountFirst(len, senderId, now) ==
    <<238, 255>> \o writeInt32(len) \o writeTime(now) \o writeString(senderId)

writeBatchHeader(len, senderId, now) ==
    <<238, 255>> \o writeTime(now) \o writeInt32(len) \o writeString(senderId)

RECURSIVE writeSamplesRange(_, _, _)
\* the bytes the sample loop of writeIndexedMetric writes for
\* samples[lo..hi], 12 for each sample, in order (split in halves to keep
\* the evaluation shallow for long sequences)
writeSamplesRange(samples, lo, hi) ==
    IF lo > hi THEN <<>>
    ELSE IF lo = hi
    THEN writeTime(samples[lo].time) \o appendFloatField(samples[lo].value)
    ELSE LET mid == (lo + hi) \div 2
         IN  writeSamplesRange(samples, lo, mid) \o writeSamplesRange(samples, mid + 1, hi)

writeSamples(samples) == writeSamplesRange(samples, 1, Len(samples))

\* the bytes appended to w (the error returned is always nil)
writeIndexedMetric(name, samplesLen, samples) ==
    writeString(name) \o writeInt16(ToInt16(samplesLen)) \o writeSamples(samples)

RECURSIVE writeMetricFields(_, _)
\* the loop of writeMetric over flds[i..]: [bytes, err]
writeMetricFields(flds, i) ==
    IF i > Len(flds) THEN [bytes |-> <<>>, err |-> NoFields]
    ELSE LET r == isValidFieldTypeAndValue(flds[i].Value)
         IN  IF ~r.ok THEN writeMetricFields(flds, i + 1)
             ELSE IF flds[i].Key = "value_mean" \/ flds[i].Key = "value"
                  THEN [bytes |-> appendFloatField(r.v), err |-> NoError]
                  ELSE writeMetricFields(flds, i + 1)

\* writeMetric taking a single field only under the key "value"
writeMetricValueKeyOnly(m) ==
    LET head == writeString(m.name) \o writeInt16(1) \o writeTime(m.time)
        flds == m.fields
    IN  CASE Len(flds) = 0 -> [bytes |-> head, err |-> NoFields]
          [] Len(flds) = 1 ->
                LET r == appendFieldValue(flds[1].Value)
                IN  IF r.err # NoError \/ flds[1].Key # "value"
                    THEN [bytes |-> head, err |-> NoFields]
                    ELSE [bytes |-> head \o r.bytes, err |-> NoError]
          [] OTHER ->
                LET r == writeMetricFields(flds, 1)
                IN  [bytes |-> head \o r.bytes, err |-> r.err]

\* [bytes, err]: the bytes appended to w, which stay there on an error
writeMetric(m) ==
    LET head == writeString(m.name) \o writeInt16(1) \o writeTime(m.time)
        flds == m.fields
    IN  CASE Len(flds) = 0 -> [bytes |-> head, err |-> NoFields]
          [] Len(flds) = 1 ->
                LET r == appendFieldValue(flds[1].Value)
                IN  IF r.err # NoError THEN [bytes |-> head, err |-> NoFields]
                    ELSE [bytes |-> head \o r.bytes, err |-> NoError]
          [] OTHER ->
                LET r == writeMetricFields(flds, 1)
                IN  [bytes |-> head \o r.bytes, err |-> r.err]

RECURSIVE indexRange(_, _, _, _)
\* the first loop of SerializeBatch over metrics[lo..hi], in order; an
\* error is logged and the loop goes on (split in halves to keep the
\* evaluation shallow for long inputs)
indexRange(index, metrics, lo, hi) ==
    IF lo > hi THEN index
    ELSE IF lo = hi THEN indexMetric(index, metrics[lo]).index
    ELSE LET mid == (lo + hi) \div 2
             left == indexRange(index, metrics, lo, mid)
         IN  \* the test has the left half evaluated before the right one
             IF DOMAIN left = {} THEN indexRange(<<>>, metrics, mid + 1, hi)
             ELSE indexRange(left, metrics, mid + 1, hi)

RECURSIVE indexUntilError(_, _, _)
indexUntilError(index, metrics, i) ==
    IF i > Len(metrics) THEN index
    ELSE LET r == indexMetric(index, metrics[i])
         IN  IF r.err # NoError THEN index
             ELSE indexUntilError(r.index, metrics, i + 1)

\* the first loop leaving at the first error instead of going on
indexAllAbortOnError(index, metrics) == indexUntilError(index, metrics, 1)

indexAll(index, metrics) == indexRange(index, metrics, 1, Len(metrics))

RECURSIVE writeAllNoReset(_, _, _, _, _)
\* the second loop without the reset of line 433
writeAllNoReset(index, order, i, w, writtenMetricsCount) ==
    IF i > Len(order)
    THEN [index |-> index, buf |-> w, count |-> writtenMetricsCount]
    ELSE LET name == order[i]
             samples == index[name]
             samplesLen == Len(samples)
         IN  IF samplesLen = 0
             THEN writeAllNoReset(index, order, i + 1, w, writtenMetricsCount)
             ELSE writeAllNoReset(index, order, i + 1,
                                  w \o writeIndexedMetric(name, samplesLen, samples),
                                  writtenMetricsCount + 1)

RECURSIVE writeAllCountsSkipped(_, _, _, _, _)
\* the second loop counting the entries it skips too
writeAllCountsSkipped(index, order, i, w, writtenMetricsCount) ==
    IF i > Len(order)
    THEN [index |-> index, buf |-> w, count |-> writtenMetricsCount]
    ELSE LET name == order[i]
             samples == index[name]
             samplesLen == Len(samples)
         IN  IF samplesLen = 0
             THEN writeAllCountsSkipped(index, order, i + 1, w, writtenMetricsCount + 1)
             ELSE writeAllCountsSkipped(Store(index, name, <<>>), order, i + 1,
                                        w \o writeIndexedMetric(name, samplesLen, samples),
                                        writtenMetricsCount + 1)

RECURSIVE writeAllDeleteEntry(_, _, _, _, _)
\* the second loop deleting the entry it has written instead of emptying it
writeAllDeleteEntry(index, order, i, w, writtenMetricsCount) ==
    IF i > Len(order)
    THEN [index |-> index, buf |-> w, count |-> writtenMetricsCount]
    ELSE LET name == order[i]
             samples == Lookup(index, name)
             samplesLen == Len(samples)
         IN  IF samplesLen = 0
             THEN writeAllDeleteEntry(index, order, i + 1, w, writtenMetricsCount)
             ELSE writeAllDeleteEntry([n \in DOMAIN index \ {name} |-> index[n]],
                                      order, i + 1,
                                      w \o writeIndexedMetric(name, samplesLen, samples),
                                      writtenMetricsCount + 1)

RECURSIVE writeAll(_, _, _, _, _)
\* the second loop of SerializeBatch, the map ranged over in the order
\* `order` from order[i] on: [index, buf, count]
writeAll(index, order, i, w, writtenMetricsCount) ==
    IF i > Len(order)
    THEN [index |-> index, buf |-> w, count |-> writtenMetricsCount]
    ELSE LET name == order[i]
             samples == index[name]
             samplesLen == Len(samples)
         IN  IF samplesLen = 0
             THEN writeAll(index, order, i + 1, w, writtenMetricsCount)
             ELSE writeAll(Store(index, name, <<>>), order, i + 1,
                           w \o writeIndexedMetric(name, samplesLen, samples),
                           writtenMetricsCount + 1)

\* the orders in which a range over a Go map with these keys may visit them
RangeOrders(keys) ==
    {o \in [1..Cardinality(keys) -> keys] : \A n \in keys : \E i \in DOMAIN o : o[i] = n}

NewSerializer(senderId) ==
    [SenderID |-> senderId, buf |-> <<>>, metricsIndex |-> <<>>]

\* bytes.Buffer.Reset: the buffer emptied
Reset(b) == <<>>

\* SerializeBatch returning the nil slice when it has written no record
SerializeBatchNilWhenEmpty(s, metrics, order, now) ==
    LET indexed == indexAll(s.metricsIndex, metrics)
        w == writeAll(indexed, order, 1, Reset(s.buf), 0)
        result == writeBatchHeader(w.count, s.SenderID, now) \o w.buf
    IN  [buf |-> <<>>, metricsIndex |-> w.index,
         out |-> IF w.count = 0 THEN Nil ELSE Bytes(result), err |-> NoError]

\* SerializeBatch writing its records after what s.buf holds already
SerializeBatchNoReset(s, metrics, order, now) ==
    LET indexed == indexAll(s.metricsIndex, metrics)
        w == writeAll(indexed, order, 1, s.buf, 0)
        result == writeBatchHeader(w.count, s.SenderID, now) \o w.buf
    IN  [buf |-> <<>>, metricsIndex |-> w.index, out |-> Bytes(result), err |-> NoError]

\* Serializer.SerializeBatch: [buf, metricsIndex, out, err]
SerializeBatch(s, metrics, order, now) ==
    LET indexed == indexAll(s.metricsIndex, metrics)
        \* the records are written to s.buf, emptied first
        w == writeAll(indexed, order, 1, Reset(s.buf), 0)
        result == writeBatchHeader(w.count, s.SenderID, now) \o w.buf
    IN  \* s.buf.WriteTo(&result) drains s.buf
        [buf |-> <<>>, metricsIndex |-> w.index, out |-> Bytes(result), err |-> NoError]

\* Serialize returning the buffer it filled along with the error
SerializeReturnsBuffer(s, m, now) ==
    LET r == writeMetric(m)
        w == Reset(s.buf) \o writeBatchHeader(1, s.SenderID, now) \o r.bytes
    IN  [buf |-> w, metricsIndex |-> s.metricsIndex, out |-> Bytes(w), err |-> r.err]

\* Serializer.Serialize: [buf, metricsIndex, out, err]
Serialize(s, m, now) ==
    LET r == writeMetric(m)
        w == Reset(s.buf) \o writeBatchHeader(1, s.SenderID, now) \o r.bytes
    IN  [buf |-> w, metricsIndex |-> s.metricsIndex,
         out |-> IF r.err # NoError THEN Nil ELSE Bytes(w), err |-> r.err]

-----------------------------------------------------------------------------
(* The reference decoder of the test, ProcessBinary *)

\* a - b in uint64 (wrapping)
Uint64Sub(a, b) ==
    LET d1 == a[1] - b[1]
        d2 == a[2] - b[2] + d1 \div 65536
        d3 == a[3] - b[3] + d2 \div 65536
        d4 == a[4] - b[4] + d3 \div 65536
    IN  <<d1 % 65536, d2 % 65536, d3 % 65536, d4 % 65536>>

\* a / k in uint64, 0 < k <= 10000
Uint64Div(a, k) ==
    LET q4 == a[4] \div k
        r4 == a[4] % k
        q3 == (r4 * 65536 + a[3]) \div k
        r3 == (r4 * 65536 + a[3]) % k
        q2 == (r3 * 65536 + a[2]) \div k
        r2 == (r3 * 65536 + a[2]) % k
        q1 == (r2 * 65536 + a[1]) \div k
    IN  <<q1, q2, q3, q4>>

\* the unix seconds (an int64) of a .NET tick count
dotnetTimeToUnix(dotnetTime) ==
    LET ticks == <<dotnetTime[1], dotnetTime[2], dotnetTime[3], dotnetTime[4] % 16384>>
    IN  Uint64Div(Uint64Div(Uint64Sub(ticks, EpochTicks), 10000), 1000)

\* binary.Read of a uint64 at data[pos..pos+7]
readUint64(data, pos) ==
    <<data[pos] + 256 * data[pos + 1], data[pos + 2] + 256 * data[pos + 3],
      data[pos + 4] + 256 * data[pos + 5], data[pos + 6] + 256 * data[pos + 7]>>

\* binary.Read of a float32 at data[pos..pos+3]
readFloat32(data, pos) ==
    LET sign == data[pos + 3] \div 128
        exp == (data[pos + 3] % 128) * 2 + data[pos + 2] \div 128
        mant == (data[pos + 2] % 128) * 65536 + data[pos + 1] * 256 + data[pos]
        e == exp - 127
        sig == 8388608 + mant
        a == IF e >= 23 THEN sig * 2 ^ (e - 23) ELSE sig \div 2 ^ (23 - e)
    IN  CASE exp = 255 /\ mant # 0 -> F32("nan", 0)
          [] exp = 255 /\ mant = 0 -> F32(IF sign = 1 THEN "ninf" ELSE "pinf", 0)
          [] exp = 0 /\ mant = 0 -> F32("fin", 0)
          [] e >= 0 /\ e <= 30 /\ (e >= 23 \/ sig % (2 ^ (23 - e)) = 0) ->
                F32("fin", IF sign = 1 THEN -a ELSE a)
          [] OTHER -> F32("other", 0)

\* binary.Read of an int16 at data[pos..pos+1]
readInt16(data, pos) == ToInt16(data[pos] + 256 * data[pos + 1])

\* binary.Read of an int32 at data[pos..pos+3]; the counts read fit 31 bits
readInt32(data, pos) ==
    IF data[pos + 3] >= 128
    THEN data[pos] + 256 * data[pos + 1] + 65536 * data[pos + 2]
         + 16777216 * (data[pos + 3] - 256)
    ELSE data[pos] + 256 * data[pos + 1] + 65536 * data[pos + 2]
         + 16777216 * data[pos + 3]

RECURSIVE readLen(_, _, _, _)
\* the length loop of readString7BitEncodingLen: [ok, length, pos]
readLen(data, pos, i, length) ==
    IF i = 4 THEN [ok |-> FALSE, length |-> length, pos |-> pos]
    ELSE IF pos > Len(data) THEN [ok |-> FALSE, length |-> length, pos |-> pos]
    ELSE LET b == data[pos]
             l == length + (b % 128)
         IN  IF b > 127 THEN readLen(data, pos + 1, i + 1, l * 128)
             ELSE [ok |-> TRUE, length |-> l, pos |-> pos + 1]

\* [ok, str, pos]; ok is FALSE where the Go code panics
readString7BitEncodingLen(data, pos) ==
    LET l == readLen(data, pos, 0, 0)
    IN  IF ~l.ok \/ l.pos + l.length - 1 > Len(data)
        THEN [ok |-> FALSE, str |-> <<>>, pos |-> l.pos]
        ELSE [ok |-> TRUE, str |-> SubSeq(data, l.pos, l.pos + l.length - 1),
              pos |-> l.pos + l.length]

RECURSIVE readSamples(_, _, _, _)
\* the sample loop of ProcessBinary: [ok, samples, pos]
readSamples(data, pos, i, valueCount) ==
    IF i >= valueCount THEN [ok |-> TRUE, samples |-> <<>>, pos |-> pos]
    ELSE IF pos + 11 > Len(data) THEN [ok |-> FALSE, samples |-> <<>>, pos |-> pos]
    ELSE LET rest == readSamples(data, pos + 12, i + 1, valueCount)
             sample == photonMetricSample(
                           dotnetTimeToUnix(readUint64(data, pos)),
                           readFloat32(data, pos + 8))
         IN  [ok |-> rest.ok, samples |-> <<sample>> \o rest.samples, pos |-> rest.pos]

RECURSIVE readRecords(_, _, _, _)
\* the record loop of ProcessBinary: [ok, records, pos]; a record is
\* [name, valueCount, samples], in the order read
readRecords(data, pos, i, count) ==
    IF i >= count THEN [ok |-> TRUE, records |-> <<>>, pos |-> pos]
    ELSE LET name == readString7BitEncodingLen(data, pos)
         IN  IF ~name.ok \/ name.pos + 1 > Len(data)
             THEN [ok |-> FALSE, records |-> <<>>, pos |-> name.pos]
             ELSE LET valueCount == readInt16(data, name.pos)
                      s == readSamples(data, name.pos + 2, 0, valueCount)
                      rest == readRecords(data, s.pos, i + 1, count)
                      rec == [name |-> name.str, valueCount |-> valueCount,
                              samples |-> s.samples]
                  IN  IF ~s.ok
                      THEN [ok |-> FALSE, records |-> <<>>, pos |-> s.pos]
                      ELSE [ok |-> rest.ok, records |-> <<rec>> \o rest.records,
                            pos |-> rest.pos]

\* [ok, timestamp, count, SenderId, records, rest]: ok is FALSE on a bad
\* magic or a panic; rest is the number of bytes the reader has left
ProcessBinary(data) ==
    LET bad == [ok |-> FALSE, timestamp |-> <<>>, count |-> 0, SenderId |-> <<>>,
                records |-> <<>>, rest |-> 0]
    IN  IF Len(data) < 14 \/ data[1] # 238 \/ data[2] # 255 THEN bad
        ELSE LET sid == readString7BitEncodingLen(data, 15)
                 count == readInt32(data, 11)
                 recs == readRecords(data, sid.pos, 0, count)
             IN  IF ~sid.ok THEN bad
                 ELSE [ok |-> recs.ok,
                       timestamp |-> dotnetTimeToUnix(readUint64(data, 3)),
                       count |-> count, SenderId |-> sid.str,
                       records |-> recs.records,
                       rest |-> Len(data) + 1 - recs.pos]

-----------------------------------------------------------------------------
(* The inputs *)

MaxBatch == 3

cpu == <<99, 112, 117>>
mem == <<109, 101, 109>>
net == <<110, 101, 116>>

Time(sec, nsec) == [sec |-> sec, nsec |-> nsec]
Field(key, value) == [Key |-> key, Value |-> value]
Metric(name, time, fields) == [name |-> name, time |-> time, fields |-> fields]

Float64(n) == Val("float64", "fin", n)
NaN == Val("float64", "nan", 0)

\* the readings of time.Now()
Clock == {Time(100, 0), Time(200, 7)}

SenderIds == {<<115, 105, 100>>}

\* the metrics batches are made of
BatchMetrics ==
    { Metric(cpu, Time(10, 5), <<Field("value", Float64(42))>>),
      Metric(cpu, Time(20, 0), <<Field("x", Val("int64", "fin", 7))>>),
      Metric(mem, Time(10, 0), <<>>),
      Metric(mem, Time(20, 0), <<Field("x", NaN)>>),
      Metric(net, Time(10, 0), <<Field("x", Float64(1)), Field("value_mean", Float64(2))>>),
      Metric(net, Time(-1, 0), <<Field("x", Float64(42)), Field("y", Float64(42))>>) }

Batches == UNION {[1..n -> BatchMetrics] : n \in 0..MaxBatch}

\* the field values value selection is tried on
Values ==
    { Float64(42), Float64(16777217), NaN,
      Val("float64", "pinf", 0), Val("float64", "ninf", 0),
      Val("float64", "huge", 0), Val("float64", "nhuge", 0),
      Val("float32", "fin", 7), Val("float32", "nan", 0),
      Val("float32", "pinf", 0), Val("float32", "ninf", 0),
      Val("int32", "fin", -3), Val("uint32", "fin", 5),
      Val("int64", "fin", 16777219), Val("uint64", "fin", 9),
      Val("string", "fin", 0), Val("bool", "fin", 0), Val("nil", "fin", 0) }

PairValues == {Float64(1), Val("int64", "fin", 2), NaN, Val("float64", "nhuge", 0)}

KeyPairs ==
    { <<"value", "value_mean">>, <<"value_mean", "value">>, <<"x", "value">>,
      <<"value", "x">>, <<"x", "value_mean">>, <<"value_mean", "x">>, <<"x", "y">> }

\* the field lists value selection is tried on: none, one, two, three fields
FieldLists ==
    {<<>>}
    \cup {<<Field(k, v)>> : k \in {"value", "x"}, v \in Values}
    \cup {<<Field(ks[1], v), Field(ks[2], w)>> : ks \in KeyPairs, v \in PairValues, w \in PairValues}
    \cup {<<Field("x", Float64(1)), Field("value", v), Field("value_mean", w)>> :
              v \in {Float64(1), NaN}, w \in {Float64(2), NaN}}

SelectMetrics == {Metric(cpu, Time(10, 5), flds) : flds \in FieldLists}

-----------------------------------------------------------------------------
(* The serializer and its caller *)

NoLong == [n |-> 0, head |-> <<>>, size |-> 0]

Self == [SenderID |-> SenderID, buf |-> buf, metricsIndex |-> metricsIndex]

Init ==
    /\ SenderID \in SenderIds
    /\ buf = <<>>
    /\ metricsIndex = <<>>
    /\ pc = "idle"
    /\ call = "none"
    /\ input = <<>>
    /\ out = Nil
    /\ err = NoError
    /\ out2 = Nil
    /\ long = NoLong

Returned(op, metrics, r) ==
    /\ buf' = r.buf
    /\ metricsIndex' = r.metricsIndex
    /\ pc' = "returned"
    /\ call' = op
    /\ input' = metrics
    /\ out' = r.out
    /\ err' = r.err
    /\ UNCHANGED SenderID

SerializeBatchCall(metrics, now) ==
    /\ pc = "idle"
    /\ \E order \in RangeOrders(DOMAIN indexAll(metricsIndex, metrics)) :
          Returned("SerializeBatch", metrics, SerializeBatch(Self, metrics, order, now))
    /\ UNCHANGED <<out2, long>>

SerializeCall(m, now) ==
    /\ pc = "idle"
    /\ Returned("Serialize", <<m>>, Serialize(Self, m, now))
    /\ UNCHANGED <<out2, long>>

\* the caller takes the result; the serializer keeps its buffer and index
Return ==
    /\ pc = "returned"
    /\ pc' = "idle"
    /\ call' = "none"
    /\ input' = <<>>
    /\ out' = Nil
    /\ err' = NoError
    /\ out2' = Nil
    /\ long' = NoLong
    /\ UNCHANGED <<SenderID, buf, metricsIndex>>

Next ==
    \/ \E metrics \in Batches, now \in Clock : SerializeBatchCall(metrics, now)
    \/ \E m \in BatchMetrics, now \in Clock : SerializeCall(m, now)
    \/ Return

Spec == Init /\ [][Next]_vars

\* two runs of SerializeBatch on the same input, each on a Serializer
\* fresh from NewSerializer with the same sender id; the variables of the
\* serializer hold the first one
TwinBatch(metrics, now1, now2) ==
    /\ pc = "idle"
    /\ \E order1, order2 \in RangeOrders(DOMAIN indexAll(<<>>, metrics)) :
          /\ Returned("SerializeBatch", metrics,
                      SerializeBatch(NewSerializer(SenderID), metrics, order1, now1))
          /\ out2' = SerializeBatch(NewSerializer(SenderID), metrics, order2, now2).out
    /\ UNCHANGED long

NextTwin ==
    \/ \E metrics \in Batches, now1, now2 \in Clock : TwinBatch(metrics, now1, now2)
    \/ Return

SpecTwin == Init /\ [][NextTwin]_vars

\* the largest int16
MaxInt16 == 32767

Repeat(m, n) == IF n = 0 THEN <<>> ELSE [i \in 1..n |-> m]

\* the lengths of the long batches: around the largest int16, and the
\* number of values of an int16
LongLens == {MaxInt16, MaxInt16 + 1, 2 * (MaxInt16 + 1)}

\* where the sample count of the first record stands in the returned bytes
RecordStart(data) == readString7BitEncodingLen(data, 15).pos
CountFieldAt(data) == readString7BitEncodingLen(data, RecordStart(data)).pos

\* SerializeBatch of the metric m repeated n times.  Of the bytes returned
\* the caller keeps the head, up to the sample count of the first record
\* (the header alone when no record follows), and their number.
LongBatch(m, n, now) ==
    /\ pc = "idle"
    /\ \E metrics \in {Repeat(m, n)} :
       \E order \in RangeOrders(DOMAIN indexAll(metricsIndex, metrics)) :
       \E r \in {SerializeBatch(Self, metrics, order, now)} :
          LET data == r.out.bytes
              head == IF RecordStart(data) > Len(data) THEN data
                      ELSE SubSeq(data, 1, CountFieldAt(data) + 1)
          IN  /\ buf' = r.buf
              /\ metricsIndex' = r.metricsIndex
              /\ err' = r.err
              /\ long' = [n |-> n, head |-> head, size |-> Len(data)]
    /\ pc' = "returned"
    /\ call' = "LongBatch"
    /\ input' = <<m>>
    /\ out' = Nil
    /\ UNCHANGED <<SenderID, out2>>

\* batches of one metric repeated, short and long
NextLong ==
    \/ \E m \in SelectMetrics, n \in 0..MaxBatch, now \in Clock : LongBatch(m, n, now)
    \/ \E n \in LongLens, now \in Clock :
          LongBatch(Metric(cpu, Time(10, 5), <<Field("value", Float64(42))>>), n, now)
    \/ Return

SpecLong == Init /\ [][NextLong]_vars

\* one metric at a time, over every field list
NextSelect ==
    \/ \E m \in SelectMetrics, now \in Clock : SerializeBatchCall(<<m>>, now)
    \/ \E m \in SelectMetrics, now \in Clock : SerializeCall(m, now)
    \/ Return

SpecSelect == Init /\ [][NextSelect]_vars

\* Serialize(m) and SerializeBatch([m]), each on a Serializer fresh from
\* NewSerializer with the same sender id; the variables of the serializer
\* hold the first one, out2 the bytes of the batch
SerializeAndBatch(m, now1, now2) ==
    /\ pc = "idle"
    /\ Returned("SerializeAndBatch", <<m>>, Serialize(NewSerializer(SenderID), m, now1))
    /\ \E order \in RangeOrders(DOMAIN indexAll(<<>>, <<m>>)) :
          out2' = SerializeBatch(NewSerializer(SenderID), <<m>>, order, now2).out
    /\ UNCHANGED long

NextAgree ==
    \/ \E m \in SelectMetrics, now1, now2 \in Clock : SerializeAndBatch(m, now1, now2)
    \/ Return

SpecAgree == Init /\ [][NextAgree]_vars

\* the longest of the short strings written
MaxStrLen == 130

\* the largest second (before and after 1970) of the times near the epoch
MaxSec == 20

\* the largest length write7BitEncodedInt writes in four bytes: 2^28 - 1
MaxLen28 == 268435455

\* string lengths: the short ones, and those around the third length byte
StrLens == 0..MaxStrLen \cup {16383, 16384}

Strings == {Repeat(b, n) : b \in {97, 200}, n \in StrLens}

\* lengths up to the largest, around every boundary of the encoding
Lengths == StrLens \cup {2097151, 2097152, MaxLen28 - 1, MaxLen28}

\* metric times: near the epoch on both sides, and far from it
Times ==
    {Time(sec, nsec) :
        sec \in -MaxSec..MaxSec \cup {-2147483647, 1500000000, 2147483647},
        nsec \in {0, 999999999}}

\* a call of one of the primitive encoders on an empty buffer: `out` holds
\* the bytes written
Written(op, arg, bytes) ==
    /\ pc = "idle"
    /\ pc' = "returned"
    /\ call' = op
    /\ input' = arg
    /\ out' = Bytes(bytes)
    /\ err' = NoError
    /\ UNCHANGED <<SenderID, buf, metricsIndex, out2, long>>

writeStringCall(str) == Written("writeString", str, writeString(str))

write7BitEncodedIntCall(value) ==
    Written("write7BitEncodedInt", value, write7BitEncodedInt(value))

writeTimeCall(t) == Written("writeTime", t, writeTime(t))

NextCodec ==
    \/ \E str \in Strings : writeStringCall(str)
    \/ \E value \in Lengths : write7BitEncodedIntCall(value)
    \/ \E t \in Times : writeTimeCall(t)
    \/ Return

SpecCodec == Init /\ [][NextCodec]_vars

\* the largest magnitude of the small numbers coerced
MaxVal == 12

\* field values of every type of the two switches: small numbers, numbers
\* float32 rounds, the non-finite floats, the float64 beyond float32, and
\* the types that are no number
CoerceValues ==
    {Val(type, "fin", n) :
        type \in {"int32", "int64", "float32", "float64"},
        n \in -MaxVal..MaxVal \cup {-16777217, 16777217, 16777219}}
    \cup {Val(type, "fin", n) :
             type \in {"uint32", "uint64"}, n \in 0..MaxVal \cup {16777217, 16777219}}
    \cup Values

\* the two coercions of one field value: appendFieldValue on an empty
\* buffer (out: the bytes written, err: the error returned) and
\* isValidFieldTypeAndValue (out2: the bytes of the float32 returned, nil
\* when it returns false)
coerceCall(value) ==
    /\ pc = "idle"
    /\ pc' = "returned"
    /\ call' = "appendFieldValue"
    /\ input' = value
    /\ \E r \in {appendFieldValue(value)} :
          /\ out' = Bytes(r.bytes)
          /\ err' = r.err
    /\ \E r \in {isValidFieldTypeAndValue(value)} :
          out2' = IF r.ok THEN Bytes(appendFloatField(r.v)) ELSE Nil
    /\ UNCHANGED <<SenderID, buf, metricsIndex, long>>

NextCoerce ==
    \/ \E value \in CoerceValues : coerceCall(value)
    \/ Return

SpecCoerce == Init /\ [][NextCoerce]_vars

-----------------------------------------------------------------------------
(* What the claims speak of *)

\* a coercion the value selector must reject: float64 NaN and +/-Inf, nil,
\* a type that is no number
Rejected(value) ==
    \/ value.type \in {"nil", "string", "bool"}
    \/ value.type = "float64" /\ value.cls \in {"nan", "pinf", "ninf"}

\* a value of a supported numeric type that is finite as a float32
Coercible(value) ==
    /\ value.type \in {"int32", "uint32", "int64", "uint64", "float32", "float64"}
    /\ value.cls = "fin"

\* the fields value selection looks at: the only field, or the fields keyed
\* "value" / "value_mean" of a longer list
Candidates(m) ==
    IF Len(m.fields) = 1 THEN {1}
    ELSE {i \in DOMAIN m.fields : m.fields[i].Key \in {"value", "value_mean"}}

\* every candidate of the metric is rejected by coercion
CandidatesRejected(m) ==
    /\ Candidates(m) # {}
    /\ \A i \in Candidates(m) : Rejected(m.fields[i].Value)

\* the metric passes value selection (section 4.1 of the design)
Passes(m) == \E i \in Candidates(m) : Coercible(m.fields[i].Value)

\* the value selected for a metric that passes
Selected(m) ==
    LET i == CHOOSE i \in Candidates(m) :
                 /\ Coercible(m.fields[i].Value)
                 /\ \A j \in Candidates(m) : Coercible(m.fields[j].Value) => i <= j
    IN  ToFloat32(m.fields[i].Value)

\* the sample the decoder reads back for a metric that passes
SampleOf(m) == photonMetricSample(Unix(m.time), Selected(m))

\* the sample the decoder reads back for an indexed sample
Read(sample) == photonMetricSample(Unix(sample.time), sample.value)

Names(metrics) == {metrics[i].name : i \in DOMAIN metrics}

RECURSIVE Flatten(_)
Flatten(seqs) == IF seqs = <<>> THEN <<>> ELSE Head(seqs) \o Flatten(Tail(seqs))

\* the samples the decoded output holds under a name, in the order read
SamplesNamed(d, name) ==
    LET recs == SelectSeq(d.records, LAMBDA r : r.name = name)
    IN  Flatten([i \in DOMAIN recs |-> recs[i].samples])

Map(f(_), seq) == [i \in DOMAIN seq |-> f(seq[i])]

RECURSIVE IsSubseq(_, _)
\* s is t with some elements left out
IsSubseq(s, t) ==
    IF s = <<>> THEN TRUE
    ELSE IF t = <<>> THEN FALSE
    ELSE IF Head(s) = Head(t) THEN IsSubseq(Tail(s), Tail(t))
    ELSE IsSubseq(s, Tail(t))

BatchReturned == pc = "returned" /\ call = "SerializeBatch"
SerializeReturned == pc = "returned" /\ call = "Serialize"

\* what the reference decoder reads from the returned bytes
Decoded == ProcessBinary(out.bytes)

-----------------------------------------------------------------------------
(* The claims *)

\* the input metrics named `name` that satisfy P, in input order
Among(metrics, name, P(_)) == SelectSeq(metrics, LAMBDA m : m.name = name /\ P(m))

NotCandidatesRejected(m) == ~CandidatesRejected(m)
HasFields(m) == Len(m.fields) > 0

\* C1: in SerializeBatch a metric whose candidate field value is rejected by
\* coercion contributes no sample: the output holds, under each name, at
\* most as many samples as the input has metrics of that name that are not
\* rejected, and the header counts no name that only rejected metrics carry.
C1_RejectedContributesNothing ==
    BatchReturned =>
        /\ \A name \in Names(input) :
              Len(SamplesNamed(Decoded, name))
                  <= Len(Among(input, name, NotCandidatesRejected))
        /\ Decoded.count
              <= Cardinality({name \in Names(input) :
                                  Among(input, name, NotCandidatesRejected) # <<>>})

\* C2: the count of the header is the number of records that follow it (the
\* decoder reads that many records and then has no byte left), no name has
\* two records, and the count is the number of names with a sample indexed
\* in this batch, whatever the input length and the earlier calls.
Survives(m) == getMetricValue(m).err = NoError

C2_CountIsRecordsWritten ==
    BatchReturned =>
        /\ Decoded.ok
        /\ Decoded.rest = 0
        /\ Len(Decoded.records) = Decoded.count
        /\ \A i, j \in DOMAIN Decoded.records :
              Decoded.records[i].name = Decoded.records[j].name => i = j
        /\ Decoded.count
              = Cardinality({name \in Names(input) : Among(input, name, Survives) # <<>>})

C2_Witness ==
    /\ BatchReturned
    /\ Decoded.count >= 1
    /\ Len(input) > Decoded.count
    /\ Cardinality(DOMAIN metricsIndex) > Decoded.count
    /\ \E i \in DOMAIN input : ~Survives(input[i])

\* C3: no sample leaks between batches: the samples a call returns under a
\* name are those a fresh index holds under it after indexing this call's
\* input alone, and every sequence of the index is empty once a call has
\* returned (and so in every state between calls).
FreshIndexed(metrics, name) == Map(Read, Lookup(indexAll(<<>>, metrics), name))

C3_NoLeakBetweenBatches ==
    /\ \A name \in DOMAIN metricsIndex : metricsIndex[name] = <<>>
    /\ BatchReturned =>
          /\ Decoded.ok
          /\ \A name \in DOMAIN metricsIndex \cup Names(input) :
                SamplesNamed(Decoded, name) = FreshIndexed(input, name)
          /\ \A i \in DOMAIN Decoded.records :
                Decoded.records[i].name \in Names(input)

C3_Witness ==
    /\ BatchReturned
    /\ Decoded.count >= 1
    /\ \E name \in DOMAIN metricsIndex : name \notin Names(input)

\* C4: every input metric that passes value selection is read back as one
\* sample of the record of its name, in input order, wherever the failing
\* metrics sit; a metric without fields adds nothing, so a batch of three
\* names whose middle metric has no fields gives the two other records.
C4_PassingMetricsIsolated ==
    BatchReturned =>
        /\ Decoded.ok
        /\ \A name \in Names(input) :
              /\ IsSubseq(Map(SampleOf, Among(input, name, Passes)),
                          SamplesNamed(Decoded, name))
              /\ Len(SamplesNamed(Decoded, name)) <= Len(Among(input, name, HasFields))
        /\ (/\ Len(input) = 3
            /\ Cardinality(Names(input)) = 3
            /\ Passes(input[1]) /\ ~HasFields(input[2]) /\ Passes(input[3]))
           => /\ Decoded.count = 2
              /\ {Decoded.records[i] : i \in DOMAIN Decoded.records}
                    = {[name |-> input[k].name, valueCount |-> 1,
                        samples |-> <<SampleOf(input[k])>>] : k \in {1, 3}}

C4_Witness ==
    /\ BatchReturned
    /\ Len(input) = 3
    /\ Cardinality(Names(input)) = 3
    /\ Passes(input[1]) /\ ~HasFields(input[2]) /\ Passes(input[3])
    /\ Decoded.count = 2

\* C5: N metrics of one name that all pass give one record with the N
\* samples in input order and a header count of 1.
C5_SameNameOneRecord ==
    (/\ BatchReturned
     /\ Len(input) >= 1
     /\ \A i \in DOMAIN input : input[i].name = input[1].name /\ Passes(input[i]))
    => /\ Decoded.ok
       /\ Decoded.rest = 0
       /\ Decoded.count = 1
       /\ Decoded.records
             = <<[name |-> input[1].name, valueCount |-> Len(input),
                  samples |-> Map(SampleOf, input)]>>

C5_Witness ==
    /\ BatchReturned
    /\ Len(input) = 3
    /\ \A i \in DOMAIN input : input[i].name = input[1].name /\ Passes(input[i])
    /\ input[1] # input[2]
    /\ Decoded.count = 1
    /\ Len(Decoded.records[1].samples) = 3

\* C8: Serialize returns nil bytes and the error "no serializable fields"
\* when the metric has no field, when its single field is NaN, +/-Inf (a
\* float64), nil or of an unsupported type, and when it has two or more
\* fields and every one keyed "value" / "value_mean" is such (or none is so
\* keyed); and whenever it returns an error it returns no bytes.
SelectionFails(m) ==
    \/ Len(m.fields) = 0
    \/ Len(m.fields) = 1 /\ Rejected(m.fields[1].Value)
    \/ Len(m.fields) >= 2 /\ \A i \in Candidates(m) : Rejected(m.fields[i].Value)

C8_SerializeFailsWithNoFields ==
    SerializeReturned =>
        /\ SelectionFails(input[1]) => err = NoFields
        /\ err # NoError => out = Nil /\ err = NoFields
        /\ err = NoError => ~out.nil

C8_Witness ==
    /\ SerializeReturned
    /\ err = NoFields
    /\ out = Nil
    /\ Len(input[1].fields) = 1
    /\ input[1].fields[1] = Field("value", NaN)

\* C9: a metric with one field of a supported numeric type that is finite
\* as a float32 serializes, whatever the key: header count 1, one record of
\* the metric's name, sample count 1, the value coerced to float32.
C9_SingleFieldSerializes ==
    (/\ SerializeReturned
     /\ Len(input[1].fields) = 1
     /\ Coercible(input[1].fields[1].Value))
    => /\ err = NoError
       /\ ~out.nil
       /\ Decoded.ok
       /\ Decoded.rest = 0
       /\ Decoded.count = 1
       /\ Decoded.records
             = <<[name |-> input[1].name, valueCount |-> 1,
                  samples |-> <<photonMetricSample(
                                    Unix(input[1].time),
                                    ToFloat32(input[1].fields[1].Value))>>]>>

C9_Witness ==
    /\ SerializeReturned
    /\ input[1].fields = <<Field("x", Val("int64", "fin", 16777219))>>
    /\ err = NoError
    /\ Decoded.records[1].samples[1].value = F32("fin", 16777220)

\* C10: for a metric with two or more fields, Serialize and SerializeBatch
\* select a value exactly when a field keyed "value" or "value_mean" has a
\* value the coercion accepts, and the value is that of the first such field
\* of the list; a field with another key is never selected.
Accepted(m) ==
    {i \in Candidates(m) : isValidFieldTypeAndValue(m.fields[i].Value).ok}

FirstAccepted(m) == CHOOSE i \in Accepted(m) : \A j \in Accepted(m) : i <= j

C10_SelectionByKey ==
    (/\ pc = "returned"
     /\ Len(input) = 1
     /\ Len(input[1].fields) >= 2)
    => LET m == input[1]
           expected == <<[name |-> m.name, valueCount |-> 1,
                          samples |-> <<photonMetricSample(
                              Unix(m.time),
                              isValidFieldTypeAndValue(m.fields[FirstAccepted(m)].Value).v)>>]>>
       IN  /\ call = "Serialize" =>
                 /\ err = NoError <=> Accepted(m) # {}
                 /\ err = NoError => Decoded.ok /\ Decoded.records = expected
           /\ call = "SerializeBatch" =>
                 /\ Decoded.ok
                 /\ Decoded.count = 1 <=> Accepted(m) # {}
                 /\ Decoded.count = 0 <=> Accepted(m) = {}
                 /\ Accepted(m) # {} => Decoded.records = expected

C10_Witness ==
    /\ BatchReturned
    /\ Len(input) = 1
    /\ input[1].fields = <<Field("value", NaN), Field("value_mean", Float64(1))>>
    /\ Decoded.count = 1
    /\ Decoded.records[1].samples[1].value = F32("fin", 1)

\* C6: in a record the 2-byte signed sample count is the number of 12-byte
\* samples that follow it, for every number of samples collected under one
\* name (here: batches of one metric repeated, whose single record is all
\* that follows the header; a metric that is indexed gives one sample).
LongReturned == pc = "returned" /\ call = "LongBatch"

C6_SampleCountIsSamplesWritten ==
    (/\ LongReturned
     /\ readInt32(long.head, 11) = 1)
    => /\ readInt16(long.head, Len(long.head) - 1) * 12 = long.size - Len(long.head)
       /\ readInt16(long.head, Len(long.head) - 1) = long.n

\* C7: two runs of SerializeBatch on the same input, each on a fresh
\* Serializer with the same sender id, return the same bytes but for the 8
\* bytes of the batch timestamp.
WithoutTimestamp(data) == SubSeq(data, 1, 2) \o SubSeq(data, 11, Len(data))

C7_FreshRunsAgree ==
    (pc = "returned" /\ ~out2.nil)
    => WithoutTimestamp(out.bytes) = WithoutTimestamp(out2.bytes)

\* C11: a metric without fields fails with "no serializable fields" in
\* Serialize (which returns no bytes) and in the per-metric step of
\* SerializeBatch, which leaves the index as it was; a batch returns the
\* count and the records, and leaves the index, that the same batch without
\* its field-less metrics gives from the same state: no entry, no record,
\* the same count.
WithFields(metrics) == SelectSeq(metrics, HasFields)

Records(d) == {d.records[i] : i \in DOMAIN d.records}

C11_ZeroFieldsContributeNothing ==
    [][(pc = "idle" /\ pc' = "returned") =>
          /\ (call' = "Serialize" /\ ~HasFields(input'[1]))
                => err' = NoFields /\ out' = Nil
          /\ call' = "SerializeBatch" =>
                /\ \A i \in DOMAIN input' :
                      ~HasFields(input'[i])
                          => indexMetric(metricsIndex, input'[i])
                                = [index |-> metricsIndex, err |-> NoFields]
                /\ \E metrics \in {WithFields(input')} :
                   \E order \in {CHOOSE o \in RangeOrders(DOMAIN indexAll(metricsIndex, metrics)) : TRUE} :
                   \E r \in {SerializeBatch(Self, metrics, order, Time(0, 0))} :
                   \E without \in {ProcessBinary(r.out.bytes)} :
                   \E with \in {ProcessBinary(out'.bytes)} :
                       /\ with.ok /\ without.ok
                       /\ with.count = without.count
                       /\ Len(with.records) = Len(without.records)
                       /\ Records(with) = Records(without)
                       /\ Len(out'.bytes) = Len(r.out.bytes)
                       /\ metricsIndex' = r.metricsIndex
      ]_vars

C11_Witness ==
    /\ BatchReturned
    /\ Len(input) = 3
    /\ ~HasFields(input[2])
    /\ input[2].name \notin DOMAIN metricsIndex
    /\ Decoded.count = 2

\* C12: SerializeBatch always returns a nil error and bytes the decoder
\* reads, whatever the input and the earlier calls; when no metric of the
\* input was indexed the count is 0, and when the count is 0 the bytes are
\* the header alone: magic, timestamp, count 0, the sender id.
C12_BatchIsTotal ==
    BatchReturned =>
        /\ err = NoError
        /\ ~out.nil
        /\ Decoded.ok
        /\ Decoded.SenderId = SenderID
        /\ (\A i \in DOMAIN input : ~Survives(input[i])) => Decoded.count = 0
        /\ Decoded.count = 0 =>
              /\ Len(out.bytes) = 14 + Len(writeString(SenderID))
              /\ WithoutTimestamp(out.bytes)
                    = <<238, 255>> \o <<0, 0, 0, 0>> \o writeString(SenderID)

C12_Witness ==
    /\ BatchReturned
    /\ Len(input) = 2
    /\ \A i \in DOMAIN input : ~Survives(input[i])
    /\ \E name \in DOMAIN metricsIndex : name \notin Names(input)
    /\ Len(out.bytes) = 18

\* C13: no sample in the bytes Serialize or SerializeBatch returns carries
\* a value that is NaN, +Inf or -Inf as a float32, whether the field was a
\* float32 or a float64 narrowed to one.
NonFinite(v) == v.cls \in {"nan", "pinf", "ninf"}

C13_NoNonFiniteSample ==
    (pc = "returned" /\ ~out.nil) =>
        \A i \in DOMAIN Decoded.records :
            \A j \in DOMAIN Decoded.records[i].samples :
                ~NonFinite(Decoded.records[i].samples[j].value)

\* C14: the bytes Serialize or SerializeBatch returns are 0xEE 0xFF, the 8
\* bytes of the batch timestamp, the 4 bytes of the count, the sender id
\* as a length-prefixed string, then the records and nothing else: the
\* decoder reads `count` records and has no byte left, and the length is
\* that of the header plus, for each record, the length of its name string
\* plus 2 plus 12 for each of its samples.
RECURSIVE RecordsLength(_)
RecordsLength(records) ==
    IF records = <<>> THEN 0
    ELSE Len(writeString(Head(records).name)) + 2 + 12 * Len(Head(records).samples)
         + RecordsLength(Tail(records))

HeaderLength == 14 + Len(writeString(SenderID))

C14_OutputLayout ==
    (pc = "returned" /\ call \in {"Serialize", "SerializeBatch"} /\ ~out.nil) =>
        /\ Len(out.bytes) >= HeaderLength
        /\ SubSeq(out.bytes, 1, 2) = <<238, 255>>
        /\ SubSeq(out.bytes, 3, 10) \in {writeTime(now) : now \in Clock}
        /\ SubSeq(out.bytes, 11, 14) = writeInt32(Decoded.count)
        /\ SubSeq(out.bytes, 15, HeaderLength) = writeString(SenderID)
        /\ Decoded.ok
        /\ Decoded.rest = 0
        /\ Decoded.count = Len(Decoded.records)
        /\ \A i \in DOMAIN Decoded.records :
              Decoded.records[i].valueCount = Len(Decoded.records[i].samples)
        /\ Len(out.bytes) = HeaderLength + RecordsLength(Decoded.records)

C14_Witness ==
    /\ BatchReturned
    /\ Decoded.count = 2
    /\ \E i \in DOMAIN Decoded.records : Len(Decoded.records[i].samples) = 2
    /\ Len(out.bytes) = 18 + 30 + 18

\* C15: the reference decoder reads the bytes of writeString back as the
\* string written and consumes exactly those bytes, for every length, those
\* of 128 bytes and more included.
C15_StringRoundTrip ==
    (pc = "returned" /\ call = "writeString") =>
        readString7BitEncodingLen(out.bytes, 1)
            = [ok |-> TRUE, str |-> input, pos |-> Len(out.bytes) + 1]

\* C16: write7BitEncodedInt writes 1 to 4 bytes for a length up to 2^28 - 1,
\* every byte but the last with the high bit set and the last without, and
\* the 7-bit groups, least significant first, add up to the length;
\* writeString writes that prefix for the length of the string and then the
\* bytes of the string.
RECURSIVE Base128(_)
\* the number whose 7-bit groups, least significant first, the bytes hold
Base128(bytes) ==
    IF bytes = <<>> THEN 0 ELSE (Head(bytes) % 128) + 128 * Base128(Tail(bytes))

IsLengthPrefix(bytes, n) ==
    /\ Len(bytes) \in 1..4
    /\ \A i \in 1..(Len(bytes) - 1) : bytes[i] >= 128
    /\ bytes[Len(bytes)] < 128
    /\ Base128(bytes) = n

C16_LengthPrefixIsBase128 ==
    /\ (pc = "returned" /\ call = "write7BitEncodedInt")
          => IsLengthPrefix(out.bytes, input)
    /\ (pc = "returned" /\ call = "writeString")
          => LET k == Len(out.bytes) - Len(input)
             IN  /\ k >= 1
                 /\ IsLengthPrefix(SubSeq(out.bytes, 1, k), Len(input))
                 /\ SubSeq(out.bytes, k + 1, Len(out.bytes)) = input

C16_Witness ==
    /\ pc = "returned"
    /\ call = "write7BitEncodedInt"
    /\ input = MaxLen28
    /\ out.bytes = <<255, 255, 255, 127>>

\* C17: the 8 bytes writeTime writes hold the ticks of the time's whole
\* seconds, and the decoder's dotnetTimeToUnix gives those seconds back,
\* for times before 1970 as for times after.
C17_TimeRoundTrip ==
    (pc = "returned" /\ call = "writeTime") =>
        /\ Len(out.bytes) = 8
        /\ dotnetTimeToUnix(readUint64(out.bytes, 1)) = Unix(input)

\* C18: SerializeBatch emits no record whose sample count is 0: where the
\* header counts a record, the sample count written in it is not 0; and a
\* batch that indexes no sample (an empty one, or one whose metric fails
\* value selection) has count 0 and no record, whatever names the earlier
\* batches emitted.
C18_NoRecordWithCountZero ==
    LongReturned =>
        /\ readInt32(long.head, 11) \in {0, 1}
        /\ readInt32(long.head, 11) = 1
              => readInt16(long.head, Len(long.head) - 1) # 0
        /\ (long.n = 0 \/ ~Survives(input[1]))
              => readInt32(long.head, 11) = 0 /\ long.size = Len(long.head)

\* C19: on fresh Serializers, Serialize(m) succeeds exactly when
\* SerializeBatch([m]) emits one record with one sample, the two outputs
\* are then the same bytes but for the batch timestamp, and when Serialize
\* fails the batch returns the header alone with count 0.
Decoded2 == ProcessBinary(out2.bytes)

C19_SerializeAgreesWithBatch ==
    (pc = "returned" /\ call = "SerializeAndBatch") =>
        /\ err = NoError <=>
              /\ Decoded2.count = 1
              /\ Len(Decoded2.records) = 1
              /\ Len(Decoded2.records[1].samples) = 1
        /\ err = NoError
              => WithoutTimestamp(out.bytes) = WithoutTimestamp(out2.bytes)
        /\ err # NoError
              => Decoded2.count = 0 /\ Len(out2.bytes) = HeaderLength

\* C20: Serialize leaves the index as it is and returns what it returns on
\* a fresh Serializer, whatever the buffer and the index hold; SerializeBatch
\* returns the count, the records and the number of bytes it returns from
\* the same index with an empty buffer, so the bytes an earlier Serialize
\* left in the buffer reach no later output.
Emptied == [SenderID |-> SenderID, buf |-> <<>>, metricsIndex |-> metricsIndex]

C20_SerializeDoesNotInterfere ==
    [][(pc = "idle" /\ pc' = "returned") =>
          /\ call' = "Serialize" =>
                /\ metricsIndex' = metricsIndex
                /\ \E r \in {Serialize(NewSerializer(SenderID), input'[1], Time(0, 0))} :
                      /\ err' = r.err
                      /\ out'.nil = r.out.nil
                      /\ ~r.out.nil =>
                            WithoutTimestamp(out'.bytes) = WithoutTimestamp(r.out.bytes)
          /\ call' = "SerializeBatch" =>
                \E order \in {CHOOSE o \in RangeOrders(DOMAIN indexAll(metricsIndex, input')) : TRUE} :
                \E r \in {SerializeBatch(Emptied, input', order, Time(0, 0))} :
                \E expected \in {ProcessBinary(r.out.bytes)} :
                \E got \in {ProcessBinary(out'.bytes)} :
                    /\ got.ok /\ got.rest = 0
                    /\ got.count = expected.count
                    /\ Len(got.records) = Len(expected.records)
                    /\ Records(got) = Records(expected)
                    /\ Len(out'.bytes) = Len(r.out.bytes)
                    /\ metricsIndex' = r.metricsIndex
      ]_vars

C20_Witness ==
    /\ SerializeReturned
    /\ err = NoFields
    /\ out = Nil
    /\ Len(buf) > HeaderLength
    /\ DOMAIN metricsIndex # {}

\* C21: for every field value appendFieldValue returns no error exactly
\* when isValidFieldTypeAndValue returns true, it then writes the 4 bytes
\* of the float32 that isValidFieldTypeAndValue returns, and it writes
\* nothing when it returns an error.
CoerceReturned == pc = "returned" /\ call = "appendFieldValue"

C21_CoercionsAgree ==
    CoerceReturned =>
        /\ err = NoError <=> ~out2.nil
        /\ err = NoError => Len(out.bytes) = 4 /\ out.bytes = out2.bytes
        /\ err # NoError => out.bytes = <<>>

C21_Witness ==
    /\ CoerceReturned
    /\ input = Val("int64", "fin", 16777219)
    /\ err = NoError
    /\ readFloat32(out.bytes, 1) = F32("fin", 16777220)
    /\ out2 = out

\* C22: the names keyed in the index never become fewer: a SerializeBatch
\* call leaves the index keyed by the names it had before and the names of
\* the metrics it indexed, each with an empty sequence, and no other step
\* changes the index; so, the index being empty at first, its entries after
\* k batches are the names indexed in those batches together.
IndexedNames(metrics) == Names(SelectSeq(metrics, Survives))

C22_IndexKeysNeverShrink ==
    [][/\ DOMAIN metricsIndex \subseteq DOMAIN metricsIndex'
       /\ (pc = "idle" /\ pc' = "returned" /\ call' = "SerializeBatch") =>
             /\ DOMAIN metricsIndex' = DOMAIN metricsIndex \cup IndexedNames(input')
             /\ \A name \in DOMAIN metricsIndex' : metricsIndex'[name] = <<>>
       /\ call' # "SerializeBatch" => metricsIndex' = metricsIndex
      ]_vars

C22_Witness ==
    /\ BatchReturned
    /\ Cardinality(DOMAIN metricsIndex) = 3
    /\ Cardinality(Names(input)) = 1
    /\ Decoded.count = 1
    /\ \A name \in DOMAIN metricsIndex : metricsIndex[name] = <<>>

====
